---- MODULE Spec2Model ----
(***************************************************************************)
(* Model of talenWF's candidate enumeration:                               *)
(* FindTALTask._find_tal_pairs_for_seq and FindTALTask._create_tal_pair    *)
(* (src/src/talenWF/api.py).  Python indices are 0-based; a Python string  *)
(* is a TLA+ sequence of one-character strings, so Python index i is       *)
(* element i+1 of the sequence.                                            *)
(***************************************************************************)
EXTENDS Integers, Sequences, FiniteSets

\* ---------------------------------------------------------------- bounds
SeqLen == 7
MaxArray == 2
MaxSpacer == 3

\* Letters the input sequence is drawn from.
Alphabet == {"A", "T"}

\* Cut sites explored in filtered mode: every index of the sequence.
FilterBases == 0..(SeqLen - 1)

\* Values of the upstream_bases argument that are explored.
UpstreamLists == {<<"T">>, <<"A", "T">>, <<"C", "N">>}

VARIABLES sequence, min_spacer, max_spacer, array_min, array_max,
          filter_base, upstream_bases, max_dist, min_dist,
          pc, base_i, j, upstream_q, up_pos_array, down_pos_array,
          out, err

config == <<sequence, min_spacer, max_spacer, array_min, array_max,
            filter_base, upstream_bases, max_dist, min_dist>>
vars == <<sequence, min_spacer, max_spacer, array_min, array_max,
          filter_base, upstream_bases, max_dist, min_dist,
          pc, base_i, j, upstream_q, up_pos_array, down_pos_array,
          out, err>>

\* ------------------------------------------------------- Python helpers
Min(a, b) == IF a < b THEN a ELSE b
Max(a, b) == IF a > b THEN a ELSE b

\* Python's normalisation of a slice bound against a length n.
Clamp(x, n) == IF x < 0 THEN Max(x + n, 0) ELSE Min(x, n)

\* s[a:b]
PySlice(s, a, b) ==
    LET lo == Clamp(a, Len(s))
        hi == Clamp(b, Len(s))
    IN  IF hi > lo THEN SubSeq(s, lo + 1, hi) ELSE <<>>

\* s[i] for an index that is in range (negative indices count from the end)
PyIndex(s, i) == IF i < 0 THEN s[Len(s) + i + 1] ELSE s[i + 1]

\* list(range(a, b))
RECURSIVE PyRange(_, _)
PyRange(a, b) == IF a >= b THEN <<>> ELSE <<a>> \o PyRange(a + 1, b)

COMPLEMENT == [c \in {"T", "A", "C", "G"} |->
                 CASE c = "T" -> "A"
                   [] c = "A" -> "T"
                   [] c = "C" -> "G"
                   [] c = "G" -> "C"]

\* findAll(seq, sub, start, end) with a one-character sub
RECURSIVE findAllFrom(_, _, _, _)
findAllFrom(seq, sub, i, end) ==
    IF i >= end THEN <<>>
    ELSE (IF PySlice(seq, i, i + 1) = <<sub>> THEN <<i>> ELSE <<>>)
         \o findAllFrom(seq, sub, i + 1, end)

\* Tests the character after position i instead of the one at i.
RECURSIVE findAllNextChar(_, _, _, _)
findAllNextChar(seq, sub, start, end) ==
    IF start >= end THEN <<>>
    ELSE (IF PySlice(seq, start + 1, start + 2) = <<sub>> THEN <<start>> ELSE <<>>)
         \o findAllNextChar(seq, sub, start + 1, end)

findAll(seq, sub, start, end) == findAllFrom(seq, sub, start, end)

\* Reports tal2_start in the 'TAL2 start' column.
create_tal_pair_inner_start(cut, up_pos, down_pos, spacer_length) ==
    LET tal1_start == up_pos + 1
        tal1_end   == cut - (spacer_length \div 2)
        tal2_start == cut + ((spacer_length + 1) \div 2) - 1
        tal2_end   == down_pos
        tal1       == PySlice(sequence, tal1_start, tal1_end)
        tal2       == PySlice(sequence, tal2_start, tal2_end)
    IN  [ pass          |-> base_i,
          up_pos        |-> up_pos,
          down_pos      |-> down_pos,
          Cut_Site      |-> cut,
          TAL1_start    |-> tal1_start,
          TAL2_start    |-> tal2_start,
          TAL1_length   |-> Len(tal1),
          TAL2_length   |-> Len(tal2),
          Spacer_length |-> spacer_length,
          Spacer_range  |-> <<tal1_end, tal2_start>> ]

\* --------------------------------------------------- _create_tal_pair
\* The numeric columns of the returned row, 'Spacer range' as the pair it is
\* formatted from, and the arguments of the call.  The sequence name, the
\* display string and the columns that are always empty are left out.
create_tal_pair(cut, up_pos, down_pos, spacer_length) ==
    LET tal1_start == up_pos + 1
        tal1_end   == cut - (spacer_length \div 2)
        tal2_start == cut + ((spacer_length + 1) \div 2) - 1
        tal2_end   == down_pos
        tal1       == PySlice(sequence, tal1_start, tal1_end)
        tal2       == PySlice(sequence, tal2_start, tal2_end)
    IN  [ pass          |-> base_i,      \* iteration of the loop of line 61
          up_pos        |-> up_pos,      \* call arguments
          down_pos      |-> down_pos,
          Cut_Site      |-> cut,
          TAL1_start    |-> tal1_start,
          TAL2_start    |-> tal2_end - 1,
          TAL1_length   |-> Len(tal1),
          TAL2_length   |-> Len(tal2),
          Spacer_length |-> spacer_length,
          Spacer_range  |-> <<tal1_end, tal2_start>> ]

\* Concatenation of f(x) over the elements x of the list s, in order.
RECURSIVE FlatMap(_, _)
FlatMap(f(_), s) == IF s = <<>> THEN <<>> ELSE f(Head(s)) \o FlatMap(f, Tail(s))

\* Puts an inverted pair of bounds in order before iterating.
SpacerRangeOrdered(lo, hi) == PyRange(Min(lo, hi), Max(lo, hi) + 1)

\* range(self.min_spacer, self.max_spacer + 1)
SpacerRange(lo, hi) == PyRange(lo, hi + 1)

\* ------------------------------------------------------- filtered mode
\* Tests the left end only.
EdgeGuardLeftOnly(fb, maxd, length) == fb - (maxd \div 2) < 0

\* the "too close to an end" test of line 64
EdgeGuard(fb, maxd, length) ==
    fb - (maxd \div 2) < 0 \/ (fb + ((maxd + 1) \div 2) + 1) > length

UpWindow(fb)   == <<fb - (max_dist \div 2) - 1, fb - (min_dist \div 2) - 1>>
\* Upper bound without the + 1.
DownWindowShort(fb) == <<fb + ((min_dist + 1) \div 2), fb + ((max_dist + 1) \div 2)>>

DownWindow(fb) == <<fb + ((min_dist + 1) \div 2), fb + ((max_dist + 1) \div 2) + 1>>

\* the records of the three nested loops of lines 73-78
FilteredRecords(fb, ups, downs) ==
    LET forSpacer(up, down) ==
            LET mk(sl) == <<create_tal_pair(fb, up, down, sl)>>
            IN  FlatMap(mk, SpacerRange(min_spacer, max_spacer))
        forDown(up) ==
            LET g(down) == forSpacer(up, down) IN FlatMap(g, downs)
    IN  FlatMap(forDown, ups)

\* ----------------------------------------------------- unfiltered mode
\* Keeps anchors one position older than the limit.
RECURSIVE EvictLate(_, _)
EvictLate(q, min_i_allowed) ==
    IF q # <<>> /\ Head(q) < min_i_allowed - 1
    THEN EvictLate(Tail(q), min_i_allowed)
    ELSE q

\* Evicts with <= instead of <.
RECURSIVE EvictInclusive(_, _)
EvictInclusive(q, min_i_allowed) ==
    IF q # <<>> /\ Head(q) <= min_i_allowed
    THEN EvictInclusive(Tail(q), min_i_allowed)
    ELSE q

\* the popleft loop of lines 88-90
RECURSIVE Evict(_, _)
Evict(q, min_i_allowed) ==
    IF q # <<>> /\ Head(q) < min_i_allowed
    THEN Evict(Tail(q), min_i_allowed)
    ELSE q

\* cut positions of line 97
CutRange(t, jj) == PyRange(t + (min_dist \div 2), jj - (min_dist \div 2))

\* the loop of lines 94-100 over a snapshot q of the queue, with its break
RECURSIVE ScanRecords(_, _)
ScanRecords(q, jj) ==
    IF q = <<>> THEN <<>>
    ELSE LET t == Head(q)
             max_i_allowed == jj - min_dist
             forSpacer(sl) ==
                 LET mk(cut) == <<create_tal_pair(cut, t, jj, sl)>>
                 IN  FlatMap(mk, CutRange(t, jj))
         IN  IF t <= max_i_allowed
             THEN FlatMap(forSpacer, SpacerRange(min_spacer, max_spacer))
                  \o ScanRecords(Tail(q), jj)
             ELSE <<>>

\* ---------------------------------------------------------------- Init
\* filter_base is <<>> for None and <<b>> for the integer b.
Init ==
    /\ sequence \in [1..SeqLen -> Alphabet]
    /\ min_spacer \in 1..MaxSpacer
    /\ max_spacer \in 1..MaxSpacer
    /\ array_min \in 1..MaxArray
    /\ array_max \in 1..MaxArray
    /\ filter_base \in {<<>>} \cup {<<b>> : b \in FilterBases}
    /\ upstream_bases \in UpstreamLists
    /\ max_dist = 2 * array_max + max_spacer
    /\ min_dist = 2 * array_min + min_spacer
    /\ pc = "for_base"
    /\ base_i = 1
    /\ j = 0
    /\ upstream_q = <<>>
    /\ up_pos_array = <<>>
    /\ down_pos_array = <<>>
    /\ out = <<>>
    /\ err = "none"

upstream_base == upstream_bases[base_i]

\* ------------------------------------------------------------- actions
\* COMPLEMENT[upstream_base] of line 62 raises KeyError
KeyErr ==
    /\ pc = "for_base" /\ base_i <= Len(upstream_bases)
    /\ upstream_base \notin DOMAIN COMPLEMENT
    /\ err' = "KeyError"
    /\ pc' = "done"
    /\ UNCHANGED <<config, base_i, j, upstream_q, up_pos_array, down_pos_array, out>>

\* lines 63-65: the cut site is too close to an end, continue
FilterSkip ==
    /\ pc = "for_base" /\ base_i <= Len(upstream_bases)
    /\ upstream_base \in DOMAIN COMPLEMENT
    /\ filter_base # <<>>
    /\ EdgeGuard(filter_base[1], max_dist, Len(sequence))
    /\ base_i' = base_i + 1
    /\ UNCHANGED <<config, pc, j, upstream_q, up_pos_array, down_pos_array, out, err>>

\* lines 66-71: the two findAll calls
FilterFind ==
    /\ pc = "for_base" /\ base_i <= Len(upstream_bases)
    /\ upstream_base \in DOMAIN COMPLEMENT
    /\ filter_base # <<>>
    /\ ~EdgeGuard(filter_base[1], max_dist, Len(sequence))
    /\ up_pos_array' = findAll(sequence, upstream_base,
                               UpWindow(filter_base[1])[1], UpWindow(filter_base[1])[2])
    /\ down_pos_array' = findAll(sequence, COMPLEMENT[upstream_base],
                                 DownWindow(filter_base[1])[1], DownWindow(filter_base[1])[2])
    /\ pc' = "filtered"
    /\ UNCHANGED <<config, base_i, j, upstream_q, out, err>>

\* lines 73-79: the asserts and the yields of the cross product, continue
FilterEmit ==
    /\ pc = "filtered"
    /\ LET n == Len(up_pos_array) * Len(down_pos_array)
           ok == \A a \in 1..Len(up_pos_array) : \A b \in 1..Len(down_pos_array) :
                    /\ PyIndex(sequence, up_pos_array[a]) = upstream_base
                    /\ PyIndex(sequence, down_pos_array[b]) = COMPLEMENT[upstream_base]
       IN  IF ok
           THEN /\ out' = out \o FilteredRecords(filter_base[1],
                                                 up_pos_array, down_pos_array)
                /\ base_i' = base_i + 1
                /\ pc' = "for_base"
                /\ err' = err
           ELSE /\ err' = "AssertionError"
                /\ pc' = "done"
                /\ UNCHANGED <<out, base_i>>
    /\ UNCHANGED <<config, j, upstream_q, up_pos_array, down_pos_array>>

\* line 81 and the start of the loop of line 82
ScanStart ==
    /\ pc = "for_base" /\ base_i <= Len(upstream_bases)
    /\ upstream_base \in DOMAIN COMPLEMENT
    /\ filter_base = <<>>
    /\ upstream_q' = <<>>
    /\ j' = 0
    /\ pc' = "scan"
    /\ UNCHANGED <<config, base_i, up_pos_array, down_pos_array, out, err>>

\* lines 84-85
ScanAppend ==
    /\ pc = "scan" /\ j < Len(sequence)
    /\ PyIndex(sequence, j) = upstream_base
    /\ upstream_q' = Append(upstream_q, j)
    /\ j' = j + 1
    /\ UNCHANGED <<config, pc, base_i, up_pos_array, down_pos_array, out, err>>

\* lines 86-90
ScanEvict ==
    /\ pc = "scan" /\ j < Len(sequence)
    /\ PyIndex(sequence, j) # upstream_base
    /\ PyIndex(sequence, j) = COMPLEMENT[upstream_base]
    /\ upstream_q' = Evict(upstream_q, j - max_dist)
    /\ pc' = "evicted"
    /\ UNCHANGED <<config, base_i, j, up_pos_array, down_pos_array, out, err>>

\* lines 92-100
ScanEmit ==
    /\ pc = "evicted"
    /\ out' = out \o ScanRecords(upstream_q, j)
    /\ j' = j + 1
    /\ pc' = "scan"
    /\ UNCHANGED <<config, base_i, upstream_q, up_pos_array, down_pos_array, err>>

\* neither branch of lines 84-86
ScanSkip ==
    /\ pc = "scan" /\ j < Len(sequence)
    /\ PyIndex(sequence, j) # upstream_base
    /\ PyIndex(sequence, j) # COMPLEMENT[upstream_base]
    /\ j' = j + 1
    /\ UNCHANGED <<config, pc, base_i, upstream_q, up_pos_array, down_pos_array, out, err>>

\* the loop of line 82 is exhausted
ScanEnd ==
    /\ pc = "scan" /\ j = Len(sequence)
    /\ base_i' = base_i + 1
    /\ pc' = "for_base"
    /\ UNCHANGED <<config, j, upstream_q, up_pos_array, down_pos_array, out, err>>

\* the loop of line 61 is exhausted: the generator returns
Finish ==
    /\ pc = "for_base" /\ base_i > Len(upstream_bases)
    /\ pc' = "done"
    /\ UNCHANGED <<config, base_i, j, upstream_q, up_pos_array, down_pos_array, out, err>>

Next ==
    \/ KeyErr
    \/ FilterSkip
    \/ FilterFind
    \/ FilterEmit
    \/ ScanStart
    \/ ScanAppend
    \/ ScanEvict
    \/ ScanEmit
    \/ ScanSkip
    \/ ScanEnd
    \/ Finish

Spec == Init /\ [][Next]_vars

\* ------------------------------------------------------------ properties
Filtered == filter_base # <<>>
Indices == 0..(Len(sequence) - 1)
ValidBases == \A k \in DOMAIN upstream_bases : upstream_bases[k] \in {"A", "C", "G", "T"}
ValidRanges == array_min <= array_max /\ min_spacer <= max_spacer
Dist(r) == r.down_pos - r.up_pos
\* the upstream base of the pass that emitted r
Base(r) == upstream_bases[r.pass]

\* C1: in filtered mode every emitted record has min_dist <= down_pos - up_pos
\* <= max_dist, a spacer length in [min_spacer, max_spacer] and
\* Cut Site = filter_base, for every config with ordered ranges.
C1_FilteredWithinScanBounds ==
    (Filtered /\ ValidRanges) =>
        \A i \in DOMAIN out :
            /\ min_dist <= Dist(out[i]) /\ Dist(out[i]) <= max_dist
            /\ min_spacer <= out[i].Spacer_length /\ out[i].Spacer_length <= max_spacer
            /\ out[i].Cut_Site = filter_base[1]

\* C2: in unfiltered mode every emitted record has min_dist <= down_pos -
\* up_pos <= max_dist and a spacer length in [min_spacer, max_spacer].
C2_ScanBounds ==
    ~Filtered =>
        \A i \in DOMAIN out :
            /\ min_dist <= Dist(out[i]) /\ Dist(out[i]) <= max_dist
            /\ min_spacer <= out[i].Spacer_length /\ out[i].Spacer_length <= max_spacer

\* a scan that emitted a pair at exactly max_dist after evicting an older anchor
C2_Witness ==
    /\ ~Filtered /\ pc = "scan"
    /\ \E i \in DOMAIN out :
         /\ Dist(out[i]) = max_dist
         /\ out[i].down_pos = j - 1
         /\ \E t \in Indices : t < out[i].up_pos /\ sequence[t + 1] = Base(out[i])

\* C3: for every emitted record, in both modes, the base at up_pos is the
\* upstream base being processed and the base at down_pos is its complement,
\* and the asserts of the filtered branch never fail.
C3_AnchorBases ==
    /\ err # "AssertionError"
    /\ \A i \in DOMAIN out :
        /\ out[i].up_pos \in Indices /\ out[i].down_pos \in Indices
        /\ out[i].pass \in DOMAIN upstream_bases
        /\ sequence[out[i].up_pos + 1] = Base(out[i])
        /\ sequence[out[i].down_pos + 1] = COMPLEMENT[Base(out[i])]

\* the filtered branch passed its asserts and emitted records
C3_Witness == Filtered /\ pc = "for_base" /\ base_i > 1 /\ out # <<>>

\* C4: for every emitted record and every config with ordered positive
\* ranges, TAL1 length = tal1_end - tal1_start >= 0 and TAL2 length =
\* tal2_end - tal2_start >= 0.
C4_Lengths ==
    ValidRanges =>
        \A i \in DOMAIN out :
            LET r == out[i]
                tal1_start == r.up_pos + 1
                tal1_end   == r.Cut_Site - (r.Spacer_length \div 2)
                tal2_start == r.Cut_Site + ((r.Spacer_length + 1) \div 2) - 1
                tal2_end   == r.down_pos
            IN  /\ r.TAL1_length = tal1_end - tal1_start
                /\ r.TAL2_length = tal2_end - tal2_start
                /\ r.TAL1_length >= 0 /\ r.TAL2_length >= 0

\* C5: when an unfiltered run has finished, every pair (t, jj) of an
\* upstream-base index and a complement-base index with min_dist <= jj - t
\* <= max_dist has, for every spacer length in [min_spacer, max_spacer], at
\* least one record.
C5_ScanComplete ==
    (pc = "done" /\ err = "none" /\ ~Filtered) =>
        \A k \in DOMAIN upstream_bases : \A t \in Indices : \A jj \in Indices :
            (/\ sequence[t + 1] = upstream_bases[k]
             /\ sequence[jj + 1] = COMPLEMENT[upstream_bases[k]]
             /\ min_dist <= jj - t /\ jj - t <= max_dist)
            => \A sl \in min_spacer..max_spacer :
                 \E i \in DOMAIN out :
                    /\ out[i].pass = k /\ out[i].up_pos = t /\ out[i].down_pos = jj
                    /\ out[i].Spacer_length = sl

\* index sets of the filtered windows, read off the sequence directly
UpSet(base, fb) ==
    {i \in Indices : /\ sequence[i + 1] = base
                     /\ fb - (max_dist \div 2) - 1 <= i
                     /\ i < fb - (min_dist \div 2) - 1}
DownSet(base, fb) ==
    {i \in Indices : /\ sequence[i + 1] = COMPLEMENT[base]
                     /\ fb + ((min_dist + 1) \div 2) <= i
                     /\ i < fb + ((max_dist + 1) \div 2) + 1}
TooCloseToEnd(fb) ==
    fb - (max_dist \div 2) < 0 \/ fb + ((max_dist + 1) \div 2) + 1 > Len(sequence)

\* C6: in filtered mode, when filter_base passes the edge guard, the records
\* of one finished pass over an upstream base are exactly one record per
\* triple of (upstream index in the up window) x (complement index in the
\* down window) x [min_spacer, max_spacer], each with Cut Site = filter_base.
C6_FilteredCrossProduct ==
    Filtered =>
        \A k \in DOMAIN upstream_bases :
            (/\ k < base_i
             /\ upstream_bases[k] \in DOMAIN COMPLEMENT
             /\ ~TooCloseToEnd(filter_base[1]))
            => LET U == UpSet(upstream_bases[k], filter_base[1])
                   D == DownSet(upstream_bases[k], filter_base[1])
                   mine == {i \in DOMAIN out : out[i].pass = k}
               IN  /\ \A i \in mine :
                        /\ out[i].up_pos \in U /\ out[i].down_pos \in D
                        /\ out[i].Spacer_length \in min_spacer..max_spacer
                        /\ out[i].Cut_Site = filter_base[1]
                   /\ \A u \in U : \A d \in D : \A sl \in min_spacer..max_spacer :
                        Cardinality({i \in mine : /\ out[i].up_pos = u
                                                  /\ out[i].down_pos = d
                                                  /\ out[i].Spacer_length = sl}) = 1

\* a finished filtered run with the whole cross product of a pass with two
\* downstream anchors and two spacer lengths
C6_Witness ==
    /\ Filtered /\ pc = "done" /\ err = "none"
    /\ \E k \in DOMAIN upstream_bases :
         /\ Cardinality(UpSet(upstream_bases[k], filter_base[1])) >= 1
         /\ Cardinality(DownSet(upstream_bases[k], filter_base[1])) >= 2
         /\ Cardinality({i \in DOMAIN out : out[i].pass = k}) >= 4

\* C7: in filtered mode, a filter_base fewer than max_dist//2 positions from
\* either end of the sequence yields zero records and raises no error in the
\* passes over the upstream bases.
C7_EdgeYieldsNothing ==
    (/\ Filtered
     /\ \/ filter_base[1] < max_dist \div 2
        \/ Len(sequence) - 1 - filter_base[1] < max_dist \div 2)
    => /\ out = <<>>
       /\ err # "AssertionError"
       /\ ValidBases => err = "none"

\* a finished run whose cut site is too close to the right end only, over a
\* sequence that has both anchors
C7_Witness ==
    /\ Filtered /\ pc = "done" /\ err = "none"
    /\ filter_base[1] >= max_dist \div 2
    /\ Len(sequence) - 1 - filter_base[1] < max_dist \div 2
    /\ \E t \in Indices : \E jj \in Indices :
         /\ t < filter_base[1] /\ filter_base[1] < jj
         /\ sequence[t + 1] = upstream_bases[1]
         /\ sequence[jj + 1] = COMPLEMENT[upstream_bases[1]]

\* C8: for an invalid configuration (min_spacer > max_spacer, array_min >
\* array_max, or an upstream_bases entry outside {A,C,G,T}) the enumeration
\* raises no error and emits zero records.
C8_InvalidConfigSilent ==
    (min_spacer > max_spacer \/ array_min > array_max \/ ~ValidBases)
    => (err = "none" /\ out = <<>>)

\* C8 amended: with min_spacer > max_spacer, or array_min > array_max making
\* min_dist > max_dist, zero records are emitted and, when every
\* upstream_bases entry is in {A,C,G,T}, no error is raised; a finished run
\* over a list with an entry outside {A,C,G,T} has raised KeyError.
C8_InvertedRangesSilent ==
    /\ (min_spacer > max_spacer \/ (array_min > array_max /\ min_dist > max_dist))
       => (out = <<>> /\ (ValidBases => err = "none"))
    /\ (pc = "done" /\ ~ValidBases) => err = "KeyError"
    /\ err = "KeyError" => ~ValidBases

\* a finished unfiltered run with min_spacer > max_spacer over a sequence
\* holding an anchor pair whose cut range is not empty
C8_Witness ==
    /\ pc = "done" /\ err = "none" /\ ~Filtered
    /\ min_spacer > max_spacer /\ min_dist < max_dist
    /\ \E t \in Indices : \E jj \in Indices :
         /\ sequence[t + 1] = upstream_bases[1]
         /\ sequence[jj + 1] = COMPLEMENT[upstream_bases[1]]
         /\ min_dist < jj - t /\ jj - t <= max_dist

\* C9: for every emitted record 'TAL2 start' equals tal2_end - 1 with
\* tal2_end = down_pos, and that value is the index of the downstream anchor
\* base itself (down_pos).
C9_Tal2StartIsAnchor ==
    \A i \in DOMAIN out :
        /\ out[i].TAL2_start = out[i].down_pos - 1
        /\ out[i].TAL2_start = out[i].down_pos

\* C9 amended: 'TAL2 start' equals tal2_end - 1 = down_pos - 1, the index
\* just before the downstream anchor base, whatever cut and spacer_length.
C9_Tal2StartBeforeAnchor ==
    \A i \in DOMAIN out : out[i].TAL2_start = out[i].down_pos - 1

\* two records of one downstream anchor with different cuts and spacer lengths
C9_Witness ==
    \E a \in DOMAIN out : \E b \in DOMAIN out :
        /\ out[a].down_pos = out[b].down_pos
        /\ out[a].Cut_Site # out[b].Cut_Site
        /\ out[a].Spacer_length # out[b].Spacer_length
        /\ out[a].Spacer_range[2] # out[a].TAL2_start

\* C10: during the unfiltered scan the lookback queue is strictly increasing
\* and holds only upstream-base indices already visited; right after the
\* eviction at a downstream index j it holds exactly the upstream-base
\* indices t with j - max_dist <= t < j, and the anchors the emission loop
\* accepts (t <= j - min_dist) form a prefix of it, so its break skips none.
C10_QueueInvariant ==
    /\ \A a \in DOMAIN upstream_q : \A b \in DOMAIN upstream_q :
         a < b => upstream_q[a] < upstream_q[b]
    /\ pc \in {"scan", "evicted"} =>
         \A a \in DOMAIN upstream_q :
            /\ upstream_q[a] \in Indices /\ upstream_q[a] < j
            /\ sequence[upstream_q[a] + 1] = upstream_base
    /\ pc = "evicted" =>
         /\ {upstream_q[a] : a \in DOMAIN upstream_q}
              = {t \in Indices : /\ sequence[t + 1] = upstream_base
                                 /\ j - max_dist <= t /\ t < j}
         /\ \A a \in DOMAIN upstream_q : \A b \in DOMAIN upstream_q :
              (a < b /\ upstream_q[b] <= j - min_dist) => upstream_q[a] <= j - min_dist

\* right after an eviction that removed an anchor and kept the one exactly
\* at j - max_dist
C10_Witness ==
    /\ pc = "evicted" /\ upstream_q # <<>>
    /\ upstream_q[1] = j - max_dist
    /\ \E t \in Indices : t < j - max_dist /\ sequence[t + 1] = upstream_base

\* C11: for every emitted record the half-open 'Spacer range'
\* [tal1_end, tal2_start) has width tal2_start - tal1_end equal to the
\* reported 'Spacer length', for odd and even spacer lengths.
C11_SpacerRangeWidth ==
    \A i \in DOMAIN out :
        out[i].Spacer_range[2] - out[i].Spacer_range[1] = out[i].Spacer_length
====
